---------------------------- MODULE Spec2Model ----------------------------
(***************************************************************************)
(* WebCrawler of backend/app/services/crawler/scraper.py as a state        *)
(* machine.  One action per stretch of code that runs between two awaits   *)
(* of the asyncio event loop: the driver (crawl, _parse_robots_txt,        *)
(* _discover_from_sitemaps, probing, _crawl_pages) and the page tasks of   *)
(* one batch (_crawl_single_page).  The site (robots.txt, sitemaps, pages) *)
(* is the environment: every response is chosen when it arrives, from the  *)
(* responses the site may give.                                            *)
(***************************************************************************)
EXTENDS Integers, Sequences, FiniteSets, TLC

VARIABLES
    config,               \* CrawlConfig of the crawler
    site,                 \* the responses the crawled site may give
    pc,                   \* position of the driver coroutine crawl()
    visited_urls,         \* self.visited_urls
    discovered_urls,      \* self.discovered_urls
    sitemap_urls,         \* self.sitemap_urls
    pages,                \* self.pages: the url of each PageMetadata, in order
    errors,               \* self.errors: records [url, type]
    robots_data,          \* self.robots_data: <<>> is None, <<d>> is the dict d
    semaphore,            \* self._semaphore: <<>> is None, <<n>> has n free permits
    sitemaps_to_process,  \* work queue of _discover_from_sitemaps
    processed_sitemaps,   \* processed set of _discover_from_sitemaps
    sitemap_url,          \* the sitemap whose GET is awaited: <<>> or <<url>>
    pages_to_crawl,       \* pending queue of _crawl_pages
    depth_map,            \* depth_map of _crawl_pages
    tasks,                \* the batch handed to asyncio.gather, in batch order
    result,               \* the returned CrawlResult: <<>> or <<record>>
    fetch_log,            \* every session.get of a sitemap URL, in call order
    parse_log,            \* what _parse_sitemap gave for each fetched sitemap
    dispatch_log,         \* the url of every _crawl_single_page task created
    robots_log,           \* how each GET of robots.txt ended
    completion_log,       \* the tasks of the batch in flight that have returned,
                          \* in the order they returned
    sleeps                \* the asyncio.sleep calls of _crawl_pages since its
                          \* last batch: <<>> before the first batch, else <<n>>

vars == <<config, site, pc, visited_urls, discovered_urls, sitemap_urls, pages,
          errors, robots_data, semaphore, sitemaps_to_process,
          processed_sitemaps, sitemap_url, pages_to_crawl, depth_map, tasks,
          result, fetch_log, parse_log, dispatch_log, robots_log,
          completion_log, sleeps>>

---------------------------------------------------------------------------
(* Bounds of the model *)

MaxPagesBound == 4
MaxDepthBound == 1
MaxWorkers == 2
MaxFetches == 4
MaxDelay == 2
MaxLines == 3
MaxEntries == 2
MaxTokens == 3

---------------------------------------------------------------------------
(* The universe of URLs *)

StartUrl == "/"
Urls == {"/", "/a", "/b", "/c"}
OffOriginUrls == {"//other/x"}
(* URLs of the start URL's host under another scheme, and on another port *)
OtherSchemeUrls == {"http:/a"}
OtherPortUrls == {"//:8443/a"}
SitemapUniverse == {"/sitemap.xml", "/sm1.xml", "/sm2.xml.gz"}
GzSuffixed == {"/sm2.xml.gz"}
DefaultSitemap == "/sitemap.xml"
SitemapPageUrls == {"/a"}
ProbeUrls == {"/b"}

None == <<>>
Some(x) == <<x>>

Min(a, b) == IF a <= b THEN a ELSE b

(* list(s) of a Python set s: the elements once each, in some order *)
ListsOf(S) ==
    {q \in [1 .. Cardinality(S) -> S] :
        \A i, j \in 1 .. Cardinality(S) : i # j => q[i] # q[j]}

(* the elements of the set S in the order the list ord gives them *)
InOrder(S, ord) == SelectSeq(ord, LAMBDA x : x \in S)

Range(q) == {q[i] : i \in 1 .. Len(q)}

Count(q, x) == Cardinality({i \in 1 .. Len(q) : q[i] = x})

Error(url, type) == [url |-> url, type |-> type]


---------------------------------------------------------------------------
(* What the site can answer *)

(* The text of a loc element: value is the text without the white space
   around it, pad tells whether white space surrounds it.  The loc of an
   entry is Some(text), or None for a loc element without text. *)
Loc(pad, value) == [pad |-> pad, value |-> value]

(* An entry of a sitemap document: a loc element inside a url or a sitemap
   element; ns tells whether both carry the sitemap namespace *)
Entry(tag, ns, loc) == [tag |-> tag, ns |-> ns, loc |-> loc]

(* A body is the document it carries and how the bytes encode it: "plain"
   is the document itself, "gzip" its gzip compression, "trunc" a gzip
   stream cut short.  A document is well-formed XML or not, and holds
   entries.  Doc(wf, us, cs) is the document under the sitemap namespace
   with a url entry for each of us and a sitemap entry for each of cs. *)
Doc(wf, us, cs) ==
    [wellformed |-> wf,
     entries |-> {Entry("url", TRUE, Some(Loc(FALSE, u))) : u \in us}
                 \cup {Entry("sitemap", TRUE, Some(Loc(FALSE, c))) : c \in cs}]

Docs ==
    {Doc(FALSE, {}, {})}
    \cup {Doc(TRUE, us, cs) : us \in SUBSET SitemapPageUrls,
                              cs \in SUBSET SitemapUniverse}

Encodings == {"plain", "gzip", "trunc"}

Response(kind, enc, doc) == [kind |-> kind, enc |-> enc, doc |-> doc]

(* kind "raise": session.get raises; "non200": a status other than 200;
   "ok": status 200 with a body *)
SitemapResponses ==
    {Response("raise", "plain", Doc(FALSE, {}, {})),
     Response("non200", "plain", Doc(FALSE, {}, {}))}
    \cup {Response("ok", e, d) : e \in Encodings, d \in Docs}

RobotsResponse(kind, sms, delay) ==
    [kind |-> kind, sitemaps |-> sms, crawl_delay |-> delay]

(* one render of a page: page.goto fails, or the page loads and
   _extract_all_links gives the set links *)
Extracted ==
    SUBSET Urls \cup {ls \cup OffOriginUrls : ls \in {{}, {"/a"}}}

---------------------------------------------------------------------------
(* _parse_sitemap *)

EndsWithGz(url) == url \in GzSuffixed

(* the bytes handed on as they came *)
GzipDecompressSkipped(enc) == [exc |-> "", enc |-> enc]

(* gzip.decompress(content): the plain bytes, gzip.BadGzipFile when the
   bytes are no gzip stream, EOFError when the stream is cut short *)
GzipDecompress(enc) ==
    CASE enc = "gzip"  -> [exc |-> "", enc |-> "plain"]
      [] enc = "plain" -> [exc |-> "BadGzipFile", enc |-> enc]
      [] OTHER         -> [exc |-> "EOFError", enc |-> enc]

(* ET.fromstring(content) succeeds on the plain bytes of a well-formed
   document only *)
XmlParses(enc, doc) == enc = "plain" /\ doc.wellformed

Parsed(raised, us, cs) == [raised |-> raised, urls |-> us, children |-> cs]

(* if loc.text: the element has text and the text is not empty *)
HasText(loc) == loc # None /\ (loc[1].pad \/ loc[1].value # "")

(* loc.text.strip() *)
StripText(loc) == loc[1].value

(* root.findall(".//sm:tag/sm:loc", ns) when namespaced, and
   root.findall(".//tag/loc") when not: the stripped texts of the loc
   elements found that have text *)
FindAll(doc, tag, namespaced) ==
    {StripText(e.loc) :
        e \in {x \in doc.entries :
                  x.tag = tag /\ x.ns = namespaced /\ HasText(x.loc)}}

(* the fallback is never tried *)
NeedsFallbackNever(us, cs) == FALSE

(* if not urls and not child_sitemaps *)
NeedsFallback(us, cs) == us = {} /\ cs = {}

(* the searches of lines 333-354 on a parsed document *)
ExtractLocs(doc) ==
    LET cs == FindAll(doc, "sitemap", TRUE)
        us == FindAll(doc, "url", TRUE)
    IN  IF NeedsFallback(us, cs)
            THEN Parsed(FALSE, us \cup FindAll(doc, "url", FALSE),
                               cs \cup FindAll(doc, "sitemap", FALSE))
            ELSE Parsed(FALSE, us, cs)

ParseSitemap(url, resp) ==
    IF resp.kind = "raise" THEN Parsed(TRUE, {}, {})
    ELSE IF resp.kind # "ok" THEN Parsed(FALSE, {}, {})
    ELSE LET gz  == GzipDecompress(resp.enc)
             enc == IF EndsWithGz(url) THEN gz.enc ELSE resp.enc
         IN  IF EndsWithGz(url) /\ gz.exc = "BadGzipFile"
                 THEN Parsed(FALSE, {}, {})
             ELSE IF EndsWithGz(url) /\ gz.exc # ""
                 THEN Parsed(TRUE, {}, {})
             ELSE IF ~XmlParses(enc, resp.doc)
                 THEN Parsed(FALSE, {}, {})
             ELSE ExtractLocs(resp.doc)

(* how a fetch went, as the error taxonomy names it *)
FetchOutcome(url, resp) ==
    IF resp.kind = "raise" THEN "network_error"
    ELSE IF resp.kind # "ok" THEN "non200"
    ELSE IF EndsWithGz(url) /\ GzipDecompress(resp.enc).exc # ""
        THEN "gzip_error"
    ELSE IF ~XmlParses(IF EndsWithGz(url) THEN "plain" ELSE resp.enc, resp.doc)
        THEN "bad_xml"
    ELSE "parsed"

---------------------------------------------------------------------------
(* _parse_robots_content.  A text is a sequence of tokens: a blank, a line
   feed, "#", ":" and words. *)

IsSpace(t) == t = " "

RECURSIVE LStrip(_)
LStrip(s) == IF s # <<>> /\ IsSpace(Head(s)) THEN LStrip(Tail(s)) ELSE s

RECURSIVE RStrip(_)
RStrip(s) ==
    IF s # <<>> /\ IsSpace(s[Len(s)]) THEN RStrip(SubSeq(s, 1, Len(s) - 1)) ELSE s

(* str.strip() *)
Strip(s) == RStrip(LStrip(s))

(* the index of the first token t of s, 0 when there is none *)
FirstIndex(s, t) ==
    LET I == {i \in 1 .. Len(s) : s[i] = t}
    IN  IF I = {} THEN 0 ELSE CHOOSE i \in I : \A j \in I : i <= j

(* content.split("\n") *)
RECURSIVE SplitLines(_)
SplitLines(s) ==
    LET k == FirstIndex(s, "\n")
    IN  IF k = 0 THEN <<s>>
        ELSE <<SubSeq(s, 1, k - 1)>> \o SplitLines(SubSeq(s, k + 1, Len(s)))

(* the directive names compared as they are written *)
LowerTokenNot(t) == t

(* str.lower() of a word *)
LowerToken(t) ==
    CASE t = "Sitemap"     -> "sitemap"
      [] t = "ALLOW"       -> "allow"
      [] t = "Disallow"    -> "disallow"
      [] t = "Crawl-Delay" -> "crawl-delay"
      [] t = "Host"        -> "host"
      [] OTHER             -> t

Lower(s) == [i \in 1 .. Len(s) |-> LowerToken(s[i])]

Numerals == {"0", "1", "2"}

NumeralValue(t) == CASE t = "0" -> 0 [] t = "1" -> 1 [] t = "2" -> 2

(* a float() that takes any text for a number *)
FloatOfAnything(value) ==
    IF Len(value) = 1 /\ value[1] \in Numerals
        THEN Some(NumeralValue(value[1])) ELSE Some(0)

(* float(value): Some(number), or None when float raises ValueError *)
FloatOf(value) ==
    IF Len(value) = 1 /\ value[1] \in Numerals
        THEN Some(NumeralValue(value[1])) ELSE None

EmptyRobots ==
    [sitemaps |-> <<>>, allowed |-> <<>>, disallowed |-> <<>>, crawl_delay |-> None]

(* the body of the loop over the lines *)
ParseRobotsLine(res, raw) ==
    LET line == Strip(raw)
        k    == FirstIndex(line, ":")
    IN  IF line = <<>> \/ Head(line) = "#" THEN res
        ELSE IF k = 0 THEN res
        ELSE LET directive == Lower(Strip(SubSeq(line, 1, k - 1)))
                 value     == Strip(SubSeq(line, k + 1, Len(line)))
             IN  CASE directive = <<"sitemap">> ->
                        [res EXCEPT !.sitemaps = Append(@, value)]
                   [] directive = <<"allow">> ->
                        [res EXCEPT !.allowed = Append(@, value)]
                   [] directive = <<"disallow">> ->
                        [res EXCEPT !.disallowed = Append(@, value)]
                   [] directive = <<"crawl-delay">> ->
                        IF FloatOf(value) # None
                            THEN [res EXCEPT !.crawl_delay = FloatOf(value)]
                            ELSE res
                   [] OTHER -> res

RECURSIVE ParseRobotsLines(_, _)
ParseRobotsLines(res, lines) ==
    IF lines = <<>> THEN res
    ELSE ParseRobotsLines(ParseRobotsLine(res, Head(lines)), Tail(lines))

ParseRobotsContent(content) == ParseRobotsLines(EmptyRobots, SplitLines(content))

---------------------------------------------------------------------------
(* _looks_like_url.  A value is a sequence of tokens: words, and the
   characters "#", ":", "/", ".", "-", a blank and a line feed. *)

StartsWith(value, prefix) ==
    Len(prefix) <= Len(value) /\ SubSeq(value, 1, Len(prefix)) = prefix

(* the tuples of the two startswith calls *)
SkippedPrefixes ==
    {<<"#">>, <<"javascript", ":">>, <<"mailto", ":">>, <<"tel", ":">>,
     <<"data", ":">>}

UrlPrefixes ==
    {<<"/">>, <<"http", ":", "/", "/">>, <<"https", ":", "/", "/">>, <<".", "/">>}

PageExtensions == {"html", "htm", "php", "asp", "aspx", "jsp"}

Words ==
    PageExtensions
    \cup {"page", "txt", "javascript", "JavaScript", "mailto", "tel", "data",
          "http", "https"}

(* a token of the class [\w\-/] *)
IsPathChar(t) == t \in Words \/ t = "-" \/ t = "/"

(* URL_PATH_PATTERN.match(value), the pattern being
   ^[\w\-/]+\.?(html?|php|aspx?|jsp)?$ : one or more tokens of the class,
   then a dot or none, then an extension or none, then the end of the
   value, which $ also finds before a line feed that ends the value *)
UrlPathPatternMatches(value) ==
    \E n \in 1 .. Len(value) :
        /\ \A i \in 1 .. n : IsPathChar(value[i])
        /\ \E dot \in {<<>>, <<".">>} :
           \E ext \in {<<>>} \cup {<<x>> : x \in PageExtensions} :
           \E eol \in {<<>>, <<"\n">>} :
               SubSeq(value, n + 1, Len(value)) = dot \o ext \o eol

LooksLikeUrl(value) ==
    IF value = <<>> THEN FALSE
    ELSE IF \E p \in SkippedPrefixes : StartsWith(value, p) THEN FALSE
    ELSE IF \E p \in UrlPrefixes : StartsWith(value, p) THEN TRUE
    ELSE UrlPathPatternMatches(value)

---------------------------------------------------------------------------
(* _extract_all_links.  A page tells, for each strategy, whether its DOM
   queries or its script raise, and the URLs the strategy has added to its
   set by then (all it finds when nothing raises). *)

(* the anchors are read in the body of _extract_all_links itself *)
InlineStrategy == "anchors"

(* the six _extract_* methods, in call order *)
ExtractMethods == <<"onclick", "data", "srcset", "css", "pagination", "routes">>

Strategies == {InlineStrategy} \cup Range(ExtractMethods)

(* an _extract_* method: its try/except returns the URLs added so far *)
ExtractBy(page, method) == page[method].urls

(* links.update(...) for the methods called so far *)
RECURSIVE UpdateLinks(_, _, _)
UpdateLinks(links, page, methods) ==
    IF methods = <<>> THEN links
    ELSE UpdateLinks(links \cup ExtractBy(page, Head(methods)), page, Tail(methods))

(* the try block of _extract_all_links: an exception among the anchors
   reaches the except of line 641, and the links added so far are
   returned *)
ExtractAllLinks(page) ==
    IF page[InlineStrategy].raises
        THEN page[InlineStrategy].urls
        ELSE UpdateLinks(page[InlineStrategy].urls, page, ExtractMethods)

---------------------------------------------------------------------------
(* WebCrawler.__init__ *)

Constructed ==
    /\ pc = "idle"
    /\ visited_urls = {}
    /\ discovered_urls = {}
    /\ sitemap_urls = {}
    /\ pages = <<>>
    /\ errors = <<>>
    /\ robots_data = None
    /\ semaphore = None
    /\ sitemaps_to_process = <<>>
    /\ processed_sitemaps = {}
    /\ sitemap_url = None
    /\ pages_to_crawl = <<>>
    /\ depth_map = <<>>
    /\ tasks = <<>>
    /\ result = None
    /\ fetch_log = <<>>
    /\ parse_log = <<>>
    /\ dispatch_log = <<>>
    /\ robots_log = <<>>
    /\ completion_log = <<>>
    /\ sleeps = None

---------------------------------------------------------------------------
(* crawl(): the reset and the set-up, up to the GET of robots.txt.
   asyncio.Semaphore(n) raises ValueError for n < 0. *)

CrawlCalled ==
    /\ visited_urls' = {}
    /\ discovered_urls' = {}
    /\ sitemap_urls' = {}
    /\ pages' = <<>>
    /\ errors' = <<>>
    /\ fetch_log' = <<>>
    /\ parse_log' = <<>>
    /\ dispatch_log' = <<>>
    /\ robots_log' = <<>>
    /\ completion_log' = <<>>
    /\ sleeps' = None
    /\ IF config.parallel_workers < 0
           THEN /\ pc' = "raised"
                /\ UNCHANGED semaphore
           ELSE /\ pc' = "robots"
                /\ semaphore' = Some(config.parallel_workers)
    /\ UNCHANGED <<config, site, robots_data, sitemaps_to_process,
                   processed_sitemaps, sitemap_url, pages_to_crawl,
                   depth_map, tasks, result>>

(* the first call of crawl() on the crawler *)
Crawl == pc = "idle" /\ CrawlCalled

(* crawl() called again on the same crawler, after it has returned *)
CrawlAgain == pc = "returned" /\ CrawlCalled

(* _parse_robots_txt: the response to the GET of robots.txt arrives *)

(* the delay of robots.txt taken whenever there is one *)
RobotsDelayAlways(delay) ==
    IF delay # None THEN delay[1] ELSE config.crawl_delay

RaisedDelay(delay) ==
    IF /\ config.respect_robots
       /\ delay # None
       /\ delay[1] # 0
       /\ delay[1] > config.crawl_delay
    THEN delay[1]
    ELSE config.crawl_delay

(* the exception of the GET escapes _parse_robots_txt and ends crawl() *)
AfterRobotsExceptionPropagates == "raised"

(* the pc after the except block of _parse_robots_txt *)
AfterRobotsException == "discover"

ParseRobotsTxt ==
    /\ pc = "robots"
    /\ \E r \in site.robots :
         /\ robots_log' = Append(robots_log, r.kind)
         /\ IF r.kind = "raise"
                THEN /\ errors' = Append(errors, Error("/robots.txt", "robots_parse_error"))
                     /\ pc' = AfterRobotsException
                     /\ UNCHANGED <<robots_data, sitemap_urls, config>>
            ELSE IF r.kind = "ok"
                THEN /\ robots_data' = Some([sitemaps |-> r.sitemaps,
                                             crawl_delay |-> r.crawl_delay])
                     /\ sitemap_urls' = sitemap_urls \cup Range(r.sitemaps)
                     /\ config' = [config EXCEPT !.crawl_delay = RaisedDelay(r.crawl_delay)]
                     /\ pc' = "discover"
                     /\ UNCHANGED errors
            ELSE /\ pc' = "discover"
                 /\ UNCHANGED <<robots_data, sitemap_urls, config, errors>>
    /\ UNCHANGED <<site, sleeps, visited_urls, discovered_urls, pages, semaphore,
                   sitemaps_to_process, processed_sitemaps, sitemap_url,
                   pages_to_crawl, depth_map, tasks, result, fetch_log,
                   parse_log, dispatch_log, completion_log>>

---------------------------------------------------------------------------
(* _discover_from_sitemaps *)

(* the seeds of the work queue *)
DiscoverFromSitemaps ==
    /\ pc = "discover"
    /\ sitemap_urls' = IF sitemap_urls = {} THEN {DefaultSitemap} ELSE sitemap_urls
    /\ sitemaps_to_process' \in ListsOf(sitemap_urls')
    /\ processed_sitemaps' = {}
    /\ pc' = "sitemaps"
    /\ UNCHANGED <<config, site, sleeps, visited_urls, discovered_urls, pages, errors,
                   robots_data, robots_log, semaphore, sitemap_url, pages_to_crawl,
                   depth_map, tasks, result, fetch_log, parse_log, dispatch_log, completion_log>>

(* the guard of the loop head dropped *)
AlreadyProcessedNever(url) == FALSE

AlreadyProcessed(url) == url \in processed_sitemaps

(* a child of an index is queued unless it is processed already *)
IsNewChild(child) == child \notin processed_sitemaps

(* processed_sitemaps.add forgotten *)
MarkProcessedForgotten(processed, url) == processed

MarkProcessed(processed, url) == processed \cup {url}

(* self.sitemap_urls.add(child) left out *)
AddChildrenForgotten(urls, new) == urls

(* self.sitemap_urls.add(child) for each child queued *)
AddChildren(urls, new) == urls \cup Range(new)

(* the try/except wrapped around the whole loop: a failure ends it *)
AfterSitemapExceptionLeaveLoop == "probe"

(* the pc after the except block of the loop body *)
AfterSitemapException == "sitemaps"

(* while sitemaps_to_process: the queue is empty *)
SitemapsDone ==
    /\ pc = "sitemaps"
    /\ sitemaps_to_process = <<>>
    /\ pc' = "probe"
    /\ UNCHANGED <<config, site, sleeps, visited_urls, discovered_urls, sitemap_urls,
                   pages, errors, robots_data, robots_log, semaphore, sitemaps_to_process,
                   processed_sitemaps, sitemap_url, pages_to_crawl, depth_map,
                   tasks, result, fetch_log, parse_log, dispatch_log, completion_log>>

(* pop(0) gives a sitemap that is already processed: continue *)
SitemapSkip ==
    /\ pc = "sitemaps"
    /\ sitemaps_to_process # <<>>
    /\ AlreadyProcessed(Head(sitemaps_to_process))
    /\ sitemaps_to_process' = Tail(sitemaps_to_process)
    /\ UNCHANGED <<config, site, sleeps, pc, visited_urls, discovered_urls,
                   sitemap_urls, pages, errors, robots_data, robots_log, semaphore,
                   processed_sitemaps, sitemap_url, pages_to_crawl, depth_map,
                   tasks, result, fetch_log, parse_log, dispatch_log, completion_log>>

(* pop(0) gives a new sitemap: mark it and send its GET *)
SitemapFetch ==
    /\ pc = "sitemaps"
    /\ sitemaps_to_process # <<>>
    /\ ~AlreadyProcessed(Head(sitemaps_to_process))
    /\ Len(fetch_log) < MaxFetches
    /\ sitemaps_to_process' = Tail(sitemaps_to_process)
    /\ processed_sitemaps' = MarkProcessed(processed_sitemaps, Head(sitemaps_to_process))
    /\ sitemap_url' = Some(Head(sitemaps_to_process))
    /\ fetch_log' = Append(fetch_log, Head(sitemaps_to_process))
    /\ pc' = "sitemap_get"
    /\ UNCHANGED <<config, site, sleeps, visited_urls, discovered_urls, sitemap_urls,
                   pages, errors, robots_data, robots_log, semaphore, pages_to_crawl,
                   depth_map, tasks, result, parse_log, dispatch_log, completion_log>>

(* the response arrives: _parse_sitemap, then the rest of the loop body *)
SitemapResponse ==
    /\ pc = "sitemap_get"
    /\ \E resp \in site.sitemaps[sitemap_url[1]] :
         LET url == sitemap_url[1]
             got == ParseSitemap(url, resp)
         IN  /\ parse_log' = Append(parse_log,
                    [url |-> url, outcome |-> FetchOutcome(url, resp),
                     urls |-> got.urls, children |-> got.children])
             /\ IF got.raised
                    THEN /\ errors' = Append(errors, Error(url, "sitemap_parse_error"))
                         /\ pc' = AfterSitemapException
                         /\ UNCHANGED <<discovered_urls, sitemaps_to_process,
                                        sitemap_urls>>
                    ELSE /\ discovered_urls' = discovered_urls \cup got.urls
                         /\ \E ord \in ListsOf(got.children) :
                              LET new == SelectSeq(ord, IsNewChild)
                              IN  /\ sitemaps_to_process' = sitemaps_to_process \o new
                                  /\ sitemap_urls' = AddChildren(sitemap_urls, new)
                         /\ pc' = "sitemaps"
                         /\ UNCHANGED errors
    /\ sitemap_url' = None
    /\ UNCHANGED <<config, site, sleeps, visited_urls, pages, robots_data, robots_log, semaphore,
                   processed_sitemaps, pages_to_crawl, depth_map, tasks,
                   result, fetch_log, dispatch_log, completion_log>>

NextSitemaps ==
    \/ Crawl
    \/ ParseRobotsTxt
    \/ DiscoverFromSitemaps
    \/ SitemapsDone
    \/ SitemapSkip
    \/ SitemapFetch
    \/ SitemapResponse

---------------------------------------------------------------------------
(* Probing, active in aggressive mode: _check_common_paths and
   _check_cms_patterns add the final URL of every probe answered by 200 *)

CheckPaths ==
    /\ pc = "probe"
    /\ config.aggressive_mode
    /\ \E hits \in site.probes : discovered_urls' = discovered_urls \cup hits
    /\ pc' = "seed"
    /\ UNCHANGED <<config, site, sleeps, visited_urls, sitemap_urls, pages, errors,
                   robots_data, robots_log, semaphore, sitemaps_to_process,
                   processed_sitemaps, sitemap_url, pages_to_crawl, depth_map,
                   tasks, result, fetch_log, parse_log, dispatch_log, completion_log>>

---------------------------------------------------------------------------
(* _crawl_pages *)

(* the start URL joins discovered_urls; the pending queue and the depth
   map are built from discovered_urls *)
StartCrawlPages ==
    /\ \/ pc = "probe" /\ ~config.aggressive_mode
       \/ pc = "seed"
    /\ discovered_urls' = discovered_urls \cup {StartUrl}
    /\ pages_to_crawl' \in ListsOf(discovered_urls')
    /\ depth_map' = [u \in discovered_urls' |-> 0]
    /\ pc' = "loop"
    /\ UNCHANGED <<config, site, sleeps, visited_urls, sitemap_urls, pages, errors,
                   robots_data, robots_log, semaphore, sitemaps_to_process,
                   processed_sitemaps, sitemap_url, tasks, result, fetch_log,
                   parse_log, dispatch_log, completion_log>>

LoopCondition ==
    pages_to_crawl # <<>> /\ Cardinality(visited_urls) < config.max_pages

(* the page budget left out of the batch size *)
BatchSizeWithoutBudget ==
    Min(config.parallel_workers, Len(pages_to_crawl))

(* the workers left out of the batch size *)
BatchSizeWithoutWorkers ==
    Min(Len(pages_to_crawl), config.max_pages - Cardinality(visited_urls))

BatchSize ==
    Min(Min(config.parallel_workers, Len(pages_to_crawl)),
        config.max_pages - Cardinality(visited_urls))

(* depth_map.get(url, 0) *)
DepthOf(dm, url) == IF url \in DOMAIN dm THEN dm[url] ELSE 0

(* the depth check left out *)
WithinDepthAlways(depth) == TRUE

(* the depth check one level too wide *)
WithinDepthOffByOne(depth) == depth <= config.max_depth + 1

WithinDepth(depth) == depth <= config.max_depth

NoResult(depth) == [page_meta |-> None, new_urls |-> {}, depth |-> depth]

Task(url, depth) ==
    [url |-> url, depth |-> depth, state |-> "created",
     result |-> NoResult(depth)]

(* CrawlResult(pages=self.pages, ...): the fields of the result are the
   list and set objects of the crawler themselves, not copies; robots_data
   is the dict that self.robots_data names at the return *)
CrawlResult ==
    [pages |-> "self.pages", discovered_urls |-> "self.discovered_urls",
     sitemap_urls |-> "self.sitemap_urls", errors |-> "self.errors",
     robots_data |-> robots_data]

(* what the object named ref holds now *)
Deref(ref) ==
    CASE ref = "self.pages"           -> pages
      [] ref = "self.discovered_urls" -> discovered_urls
      [] ref = "self.sitemap_urls"    -> sitemap_urls
      [] ref = "self.errors"          -> errors

(* what a reader of the CrawlResult r finds in it now *)
Contents(r) ==
    [pages |-> Deref(r.pages), discovered_urls |-> Deref(r.discovered_urls),
     sitemap_urls |-> Deref(r.sitemap_urls), errors |-> Deref(r.errors)]

(* the loop ends: the browser is closed and crawl() returns the result *)
CrawlReturns ==
    /\ pc = "loop"
    /\ ~LoopCondition
    /\ pc' = "returned"
    /\ result' = Some(CrawlResult)
    /\ UNCHANGED <<config, site, sleeps, visited_urls, discovered_urls, sitemap_urls,
                   pages, errors, robots_data, robots_log, semaphore, sitemaps_to_process,
                   processed_sitemaps, sitemap_url, pages_to_crawl, depth_map,
                   tasks, fetch_log, parse_log, dispatch_log, completion_log>>

(* one pass of the loop up to asyncio.gather: pop batch_size URLs, keep
   those not visited and within the depth budget, create their tasks *)
NextBatch ==
    /\ pc = "loop"
    /\ LoopCondition
    /\ LET n      == BatchSize
           popped == SubSeq(pages_to_crawl, 1, n)
           batch  == SelectSeq(popped,
                        LAMBDA u : /\ u \notin visited_urls
                                   /\ WithinDepth(DepthOf(depth_map, u)))
       IN  /\ pages_to_crawl' = SubSeq(pages_to_crawl, n + 1, Len(pages_to_crawl))
           /\ tasks' = [i \in 1 .. Len(batch) |->
                          Task(batch[i], DepthOf(depth_map, batch[i]))]
           /\ dispatch_log' = dispatch_log \o batch
    /\ pc' = "gather"
    /\ sleeps' = Some(0)
    /\ UNCHANGED <<config, site, visited_urls, discovered_urls, sitemap_urls,
                   pages, errors, robots_data, robots_log, semaphore, sitemaps_to_process,
                   processed_sitemaps, sitemap_url, depth_map, result,
                   fetch_log, parse_log, completion_log>>

---------------------------------------------------------------------------
(* _crawl_single_page, one task of the batch *)

(* urlparse(u).scheme and urlparse(u).netloc; a URL written as a path is
   a URL of the start URL's scheme, host and port *)
Scheme(u) == IF u \in OtherSchemeUrls THEN "http" ELSE "https"

Netloc(u) ==
    CASE u \in OffOriginUrls -> "other"
      [] u \in OtherPortUrls -> "site:8443"
      [] OTHER                -> "site"

(* self.base_url: scheme and netloc of the start URL *)
BaseUrl == StartUrl

(* urlparse(u).netloc == parsed_base.netloc *)
SameNetloc(u) == Netloc(u) = Netloc(BaseUrl)

(* the task runs from its start to its first await: it takes a permit of
   the semaphore, returns at once when the URL is visited, and otherwise
   marks it visited.  The event loop starts tasks in creation order. *)
TaskStart(i) ==
    /\ pc = "gather"
    /\ tasks[i].state = "created"
    /\ \A j \in 1 .. i - 1 : tasks[j].state # "created"
    /\ semaphore[1] > 0
    /\ IF tasks[i].url \in visited_urls
           THEN /\ tasks' = [tasks EXCEPT ![i].state = "done"]
                /\ completion_log' = Append(completion_log, tasks[i].url)
                /\ UNCHANGED <<visited_urls, semaphore>>
           ELSE /\ visited_urls' = visited_urls \cup {tasks[i].url}
                /\ tasks' = [tasks EXCEPT ![i].state = "running"]
                /\ semaphore' = Some(semaphore[1] - 1)
                /\ UNCHANGED completion_log
    /\ UNCHANGED <<config, site, sleeps, pc, discovered_urls, sitemap_urls, pages,
                   errors, robots_data, robots_log, sitemaps_to_process,
                   processed_sitemaps, sitemap_url, pages_to_crawl, depth_map,
                   result, fetch_log, parse_log, dispatch_log>>

(* the failure logged and not recorded *)
RecordCrawlErrorSwallowed(errs, url) == errs

(* self.errors.append({"url": url, ..., "type": "crawl_error"}) *)
RecordCrawlError(errs, url) == Append(errs, Error(url, "crawl_error"))

(* the render fails: the except block records a crawl_error *)
TaskFails(i) ==
    /\ pc = "gather"
    /\ tasks[i].state = "running"
    /\ tasks[i].url \in site.failing
    /\ errors' = RecordCrawlError(errors, tasks[i].url)
    /\ tasks' = [tasks EXCEPT ![i].state = "done"]
    /\ completion_log' = Append(completion_log, tasks[i].url)
    /\ semaphore' = Some(semaphore[1] + 1)
    /\ UNCHANGED <<config, site, sleeps, pc, visited_urls, discovered_urls,
                   sitemap_urls, pages, robots_data, robots_log,
                   sitemaps_to_process, processed_sitemaps, sitemap_url,
                   pages_to_crawl, depth_map, result, fetch_log, parse_log,
                   dispatch_log>>

(* the page loads: metadata, and the extracted links of the same netloc *)
TaskSucceeds(i) ==
    /\ pc = "gather"
    /\ tasks[i].state = "running"
    /\ \E links \in site.links :
         tasks' = [tasks EXCEPT
                     ![i].state = "done",
                     ![i].result = [page_meta |-> Some(tasks[i].url),
                                    new_urls |-> {u \in links : SameNetloc(u)},
                                    depth |-> tasks[i].depth]]
    /\ completion_log' = Append(completion_log, tasks[i].url)
    /\ semaphore' = Some(semaphore[1] + 1)
    /\ UNCHANGED <<config, site, sleeps, pc, visited_urls, discovered_urls,
                   sitemap_urls, pages, errors, robots_data, robots_log,
                   sitemaps_to_process, processed_sitemaps, sitemap_url,
                   pages_to_crawl, depth_map, result, fetch_log, parse_log,
                   dispatch_log>>

---------------------------------------------------------------------------
(* _crawl_pages: asyncio.gather has returned; the results are merged in
   batch order *)

(* the depth_map test left out: only visited URLs are kept off the queue *)
IsNewUrlUnlessVisited(dm, url) == url \notin visited_urls

(* both tests left out: every link is queued *)
IsNewUrlAlways(dm, url) == TRUE

IsNewUrl(dm, url) == url \notin visited_urls /\ url \notin DOMAIN dm

(* the new URL put at the head of the pending queue *)
EnqueueAtFront(queue, url) == <<url>> \o queue

(* pages_to_crawl.append(new_url) *)
Enqueue(queue, url) == Append(queue, url)

(* a link recorded two levels below the page that has it *)
LinkDepthSkipsLevel(depth) == depth + 2

(* depth_map[new_url] = depth + 1 *)
LinkDepth(depth) == depth + 1

(* for new_url in new_urls, in the order new_seq *)
RECURSIVE EnqueueNew(_, _, _)
EnqueueNew(st, new_seq, depth) ==
    IF new_seq = <<>> THEN st
    ELSE LET u == Head(new_seq)
         IN  EnqueueNew(
                 IF IsNewUrl(st.depth_map, u)
                     THEN [st EXCEPT !.depth_map = (u :> LinkDepth(depth)) @@ @,
                                     !.pages_to_crawl = Enqueue(@, u)]
                     ELSE st,
                 Tail(new_seq), depth)

(* for result in results; ord is the order in which the sets of extracted
   URLs are iterated, given for the URLs that can join the queue *)
RECURSIVE MergeResults(_, _, _)
MergeResults(st, results, ord) ==
    IF results = <<>> THEN st
    ELSE LET r  == Head(results)
             s1 == IF r.page_meta # None
                       THEN [st EXCEPT !.pages = Append(@, r.page_meta[1])]
                       ELSE st
         IN  MergeResults(EnqueueNew(s1, InOrder(r.new_urls, ord), r.depth),
                          Tail(results), ord)

(* the pause left out *)
SleepNever(queue) == FALSE

(* if pages_to_crawl: await asyncio.sleep(self.config.crawl_delay) *)
SleepNeeded(queue) == queue # <<>>

MergeBatch ==
    /\ pc = "gather"
    /\ \A i \in 1 .. Len(tasks) : tasks[i].state = "done"
    /\ \E ord \in ListsOf({u \in UNION {tasks[i].result.new_urls : i \in 1 .. Len(tasks)} :
                              IsNewUrl(depth_map, u)}) :
         LET st == MergeResults(
                       [pages |-> pages, depth_map |-> depth_map,
                        pages_to_crawl |-> pages_to_crawl],
                       [i \in 1 .. Len(tasks) |-> tasks[i].result], ord)
         IN  /\ pages' = st.pages
             /\ depth_map' = st.depth_map
             /\ pages_to_crawl' = st.pages_to_crawl
    /\ tasks' = <<>>
    /\ completion_log' = <<>>
    /\ pc' = IF SleepNeeded(pages_to_crawl') THEN "sleep" ELSE "loop"
    /\ UNCHANGED <<config, site, sleeps, visited_urls, discovered_urls, sitemap_urls,
                   errors, robots_data, robots_log, semaphore,
                   sitemaps_to_process, processed_sitemaps, sitemap_url,
                   result, fetch_log, parse_log, dispatch_log>>

(* asyncio.sleep(crawl_delay) is over *)
Sleep ==
    /\ pc = "sleep"
    /\ pc' = "loop"
    /\ sleeps' = Some(sleeps[1] + 1)
    /\ UNCHANGED <<config, site, visited_urls, discovered_urls, sitemap_urls,
                   pages, errors, robots_data, robots_log, semaphore, sitemaps_to_process,
                   processed_sitemaps, sitemap_url, pages_to_crawl, depth_map,
                   tasks, result, fetch_log, parse_log, dispatch_log, completion_log>>

NextCrawlPages ==
    \/ CheckPaths
    \/ StartCrawlPages
    \/ CrawlReturns
    \/ NextBatch
    \/ \E i \in 1 .. Len(tasks) : TaskStart(i)
    \/ \E i \in 1 .. Len(tasks) : TaskFails(i)
    \/ \E i \in 1 .. Len(tasks) : TaskSucceeds(i)
    \/ MergeBatch
    \/ Sleep

Next == NextSitemaps \/ NextCrawlPages

---------------------------------------------------------------------------
(* Configurations and sites *)

Config(mp, md, pw, delay, respect, aggressive) ==
    [max_pages |-> mp, max_depth |-> md, parallel_workers |-> pw,
     crawl_delay |-> delay, respect_robots |-> respect,
     aggressive_mode |-> aggressive]

DefaultDelay == 1

RobotsLists ==
    {<<>>, <<"/sm1.xml">>, <<"/sm1.xml", "/sm1.xml">>,
     <<"/sm1.xml", "/sm2.xml.gz">>}

(* a site that may answer anything to the robots and sitemap requests *)
AnySitemapSite ==
    [robots   |-> {RobotsResponse("raise", <<>>, None),
                   RobotsResponse("non200", <<>>, None)}
                  \cup {RobotsResponse("ok", l, None) : l \in RobotsLists}
                  \cup {RobotsResponse("ok", <<>>, Some(2))},
     sitemaps |-> [s \in SitemapUniverse |-> SitemapResponses],
     probes   |-> SUBSET ProbeUrls,
     links    |-> Extracted,
     failing  |-> Urls]

InitSitemaps ==
    /\ Constructed
    /\ config = Config(1, 1, 1, DefaultDelay, TRUE, FALSE)
    /\ site = AnySitemapSite

SitemapSpec == InitSitemaps /\ [][NextSitemaps]_vars

(* a site whose sitemaps are all indexes, naming any sitemaps at all *)
IndexSite ==
    [AnySitemapSite EXCEPT
        !.robots = {RobotsResponse("non200", <<>>, None),
                    RobotsResponse("ok", <<"/sm1.xml", "/sm2.xml.gz">>, None)},
        !.sitemaps = [s \in SitemapUniverse |->
                        {Response("ok", IF EndsWithGz(s) THEN "gzip" ELSE "plain",
                                  Doc(TRUE, {}, cs)) : cs \in SUBSET SitemapUniverse}]]

InitIndexes ==
    /\ Constructed
    /\ config = Config(1, 1, 1, DefaultDelay, TRUE, FALSE)
    /\ site = IndexSite

(* the event loop runs the driver whenever it can take a step *)
FairSitemapSpec == InitIndexes /\ [][NextSitemaps]_vars /\ WF_vars(NextSitemaps)

---------------------------------------------------------------------------
(* Claims about sitemap resolution *)

SitemapsResolved == pc = "probe"

Fetched == Range(fetch_log)

(* the fetches that parsed an index naming the sitemap s *)
ReferencesTo(s) == {i \in 1 .. Len(parse_log) : s \in parse_log[i].children}

(* C7: sitemap resolution finishes, whatever the sitemaps reference:
   every fair run of the resolution reaches the end of
   _discover_from_sitemaps, also when indexes reference each other or
   themselves. *)
C7_SitemapResolutionTerminates == <>SitemapsResolved

(* resolution is over and a cycle of indexes was parsed on the way *)
C7_Witness ==
    /\ SitemapsResolved
    /\ \E i, j \in 1 .. Len(parse_log) :
         /\ parse_log[j].url \in parse_log[i].children
         /\ parse_log[i].url \in parse_log[j].children

(* C8: each sitemap URL is fetched at most once per crawl. *)
C8_FetchedAtMostOnce == \A s \in SitemapUniverse : Count(fetch_log, s) <= 1

(* a sitemap named by robots.txt and by two parsed indexes, one of them
   parsed after the sitemap was fetched, and fetched once *)
C8_Witness ==
    /\ SitemapsResolved
    /\ robots_data # None
    /\ \E s \in Range(robots_data[1].sitemaps) :
         /\ Count(fetch_log, s) = 1
         /\ Cardinality(ReferencesTo(s)) >= 2
         /\ \E i \in ReferencesTo(s) : \E k \in 1 .. i : fetch_log[k] = s

(* C9 as claimed: a fetch that ends in a non-200 status or in unparsable
   XML contributes nothing and leaves a sitemap_parse_error for its URL. *)
C9_FailureRecorded ==
    \A i \in 1 .. Len(parse_log) :
        parse_log[i].outcome \in {"non200", "bad_xml"} =>
            /\ parse_log[i].urls = {}
            /\ parse_log[i].children = {}
            /\ Error(parse_log[i].url, "sitemap_parse_error") \in Range(errors)

(* C10: when resolution is over, every sitemap that was in the work queue
   or is referenced by a parsed index has been fetched, and the page URLs
   of every parsed sitemap are in discovered_urls, whatever failed. *)
C10_FailuresDoNotStopResolution ==
    SitemapsResolved =>
        /\ sitemap_urls \subseteq Fetched
        /\ \A i \in 1 .. Len(parse_log) :
             /\ parse_log[i].children \subseteq Fetched
             /\ parse_log[i].urls \subseteq discovered_urls

(* an exception and a silent failure, and after the exception a sitemap
   that was parsed and gave page URLs *)
C10_Witness ==
    /\ SitemapsResolved
    /\ \E i, j, k \in 1 .. Len(parse_log) :
         /\ i < k
         /\ parse_log[i].outcome \in {"network_error", "gzip_error"}
         /\ Error(parse_log[i].url, "sitemap_parse_error") \in Range(errors)
         /\ parse_log[j].outcome \in {"non200", "bad_xml"}
         /\ parse_log[k].outcome = "parsed"
         /\ parse_log[k].urls # {}

(* a site of sitemap indexes whose robots.txt may fail or give any
   crawl-delay, none included *)
DelaySite ==
    [IndexSite EXCEPT
        !.robots = {RobotsResponse("raise", <<>>, None),
                    RobotsResponse("non200", <<>>, None),
                    RobotsResponse("ok", <<>>, None)}
                   \cup {RobotsResponse("ok", <<>>, Some(d)) : d \in 0 .. MaxDelay + 1}]

(* any configured delay from 0 up, robots.txt respected or not *)
DelayConfigs ==
    {Config(1, 1, 1, d, r, FALSE) : d \in 0 .. MaxDelay, r \in BOOLEAN}

InitDelays ==
    /\ Constructed
    /\ config \in DelayConfigs
    /\ site = DelaySite

RobotsSpec == InitDelays /\ [][NextSitemaps]_vars

---------------------------------------------------------------------------
(* The helpers called on their own, as the tests call them:
   crawler._parse_robots_content(content) and
   crawler._parse_sitemap(session, url) on a session that gives one
   response.  result holds what the call returned. *)

(* a line of a robots.txt and what it stands for: a directive "sitemap",
   "allow" or "disallow" with its value, a crawl-delay with its numeral
   ("delay"), a crawl-delay without a number ("bad_delay"), or nothing
   ("ignored") *)
RobotsLine(text, is, value) == [text |-> text, is |-> is, value |-> value]

RobotsLines ==
    {RobotsLine(<<>>, "ignored", <<>>),
     RobotsLine(<<" ">>, "ignored", <<>>),
     RobotsLine(<<"#", "Sitemap", ":", "/x">>, "ignored", <<>>),
     RobotsLine(<<"Sitemap", " ", "/x">>, "ignored", <<>>),
     RobotsLine(<<"Host", ":", "/x">>, "ignored", <<>>),
     RobotsLine(<<"Sitemap", ":", " ", "/sm1.xml">>, "sitemap", <<"/sm1.xml">>),
     RobotsLine(<<"sitemap", ":", "http", ":", "/x">>, "sitemap", <<"http", ":", "/x">>),
     RobotsLine(<<" ", "ALLOW", " ", ":", "/", " ">>, "allow", <<"/">>),
     RobotsLine(<<"Disallow", ":", " ", "/admin">>, "disallow", <<"/admin">>),
     RobotsLine(<<"disallow", ":">>, "disallow", <<>>),
     RobotsLine(<<"Crawl-Delay", ":", " ", "2">>, "delay", <<"2">>),
     RobotsLine(<<"crawl-delay", ":", "1">>, "delay", <<"1">>),
     RobotsLine(<<"Crawl-Delay", ":", " ", "abc">>, "bad_delay", <<>>),
     RobotsLine(<<"crawl-delay", ":">>, "bad_delay", <<>>)}

RobotsDocuments == UNION {[1 .. n -> RobotsLines] : n \in 0 .. MaxLines}

(* the text of a document: its lines joined by line feeds *)
RECURSIVE Content(_)
Content(doc) ==
    IF doc = <<>> THEN <<>>
    ELSE IF Len(doc) = 1 THEN doc[1].text
    ELSE doc[1].text \o <<"\n">> \o Content(Tail(doc))

RECURSIVE SubsetsUpTo(_, _)
SubsetsUpTo(S, n) ==
    IF n = 0 THEN {{}}
    ELSE LET P == SubsetsUpTo(S, n - 1)
         IN  P \cup {p \cup {e} : p \in P, e \in S}

(* loc elements without text, of white space only, plain and padded *)
Locs(values) ==
    {None, Some(Loc(TRUE, ""))}
    \cup {Some(Loc(pad, v)) : pad \in BOOLEAN, v \in values}

EntryUniverse ==
    {Entry("url", ns, loc) : ns \in BOOLEAN, loc \in Locs({"/a", "/b"})}
    \cup {Entry("sitemap", ns, loc) : ns \in BOOLEAN, loc \in Locs({"/sm1.xml"})}

XmlDocs ==
    {[wellformed |-> TRUE, entries |-> es] : es \in SubsetsUpTo(EntryUniverse, MaxEntries)}

(* the documents served: the well-formed ones and one that is no XML *)
ServedDocs == XmlDocs \cup {Doc(FALSE, {}, {})}

(* what is handed to the call: a robots.txt, or a session that answers the
   GET of one sitemap URL with status 200 and a document, served as it is
   at a URL without .gz or gzip-compressed at a URL that ends in .gz *)
CallInputs ==
    {[robots_txt |-> doc] : doc \in RobotsDocuments}
    \cup {[sitemaps |-> ("/sitemap.xml" :> {Response("ok", "plain", d)})] : d \in ServedDocs}
    \cup {[sitemaps |-> ("/sm2.xml.gz" :> {Response("ok", "gzip", d)})] : d \in ServedDocs}

CallParseRobotsContent ==
    /\ pc = "idle"
    /\ "robots_txt" \in DOMAIN site
    /\ result' = Some(ParseRobotsContent(Content(site.robots_txt)))
    /\ pc' = "called"
    /\ UNCHANGED <<config, site, sleeps, visited_urls, discovered_urls, sitemap_urls,
                   pages, errors, robots_data, robots_log, semaphore,
                   sitemaps_to_process, processed_sitemaps, sitemap_url,
                   pages_to_crawl, depth_map, tasks, fetch_log, parse_log,
                   dispatch_log, completion_log>>

CallParseSitemap ==
    /\ pc = "idle"
    /\ "sitemaps" \in DOMAIN site
    /\ \E url \in DOMAIN site.sitemaps : \E resp \in site.sitemaps[url] :
         /\ result' = Some(ParseSitemap(url, resp))
         /\ sitemap_url' = Some(url)
    /\ pc' = "called"
    /\ UNCHANGED <<config, site, sleeps, visited_urls, discovered_urls, sitemap_urls,
                   pages, errors, robots_data, robots_log, semaphore,
                   sitemaps_to_process, processed_sitemaps, pages_to_crawl,
                   depth_map, tasks, fetch_log, parse_log, dispatch_log,
                   completion_log>>

NextCalls == CallParseRobotsContent \/ CallParseSitemap

InitCalls ==
    /\ Constructed
    /\ config = Config(1, 1, 1, DefaultDelay, TRUE, FALSE)
    /\ site \in CallInputs

ParseSpec == InitCalls /\ [][NextCalls]_vars

(* the values handed to _looks_like_url: a beginning, one of those the
   function tests for or another, and up to max tokens after it *)
Beginnings ==
    SkippedPrefixes \cup UrlPrefixes
    \cup {<<>>, <<" ">>, <<"JavaScript", ":">>, <<"http", ":">>}

BodyTokens == PageExtensions \cup {"page", "txt", "-", "/", ".", ":", "\n"}

ValuesUpTo(max) ==
    {b \o t : b \in Beginnings,
              t \in UNION {[1 .. n -> BodyTokens] : n \in 0 .. max}}

CallLooksLikeUrl ==
    /\ pc = "idle"
    /\ "value" \in DOMAIN site
    /\ result' = Some(LooksLikeUrl(site.value))
    /\ pc' = "called"
    /\ UNCHANGED <<config, site, sleeps, visited_urls, discovered_urls, sitemap_urls,
                   pages, errors, robots_data, robots_log, semaphore,
                   sitemaps_to_process, processed_sitemaps, sitemap_url,
                   pages_to_crawl, depth_map, tasks, fetch_log, parse_log,
                   dispatch_log, completion_log>>

(* the pages handed to _extract_all_links: each strategy finds nothing or
   the one URL that only it finds, named after it, and raises or not *)
RenderedPages ==
    {[x \in Strategies |-> [raises |-> r[x], urls |-> IF f[x] THEN {x} ELSE {}]] :
        r \in [Strategies -> BOOLEAN], f \in [Strategies -> BOOLEAN]}

CallExtractAllLinks ==
    /\ pc = "idle"
    /\ "page" \in DOMAIN site
    /\ result' = Some(ExtractAllLinks(site.page))
    /\ pc' = "called"
    /\ UNCHANGED <<config, site, sleeps, visited_urls, discovered_urls,
                   sitemap_urls, pages, errors, robots_data, robots_log,
                   semaphore, sitemaps_to_process, processed_sitemaps,
                   sitemap_url, pages_to_crawl, depth_map, tasks, fetch_log,
                   parse_log, dispatch_log, completion_log>>

InitPages ==
    /\ Constructed
    /\ config = Config(1, 1, 1, DefaultDelay, TRUE, FALSE)
    /\ site \in {[page |-> p] : p \in RenderedPages}

ExtractSpec == InitPages /\ [][CallExtractAllLinks]_vars

InitValues ==
    /\ Constructed
    /\ config = Config(1, 1, 1, DefaultDelay, TRUE, FALSE)
    /\ site \in {[value |-> v] : v \in ValuesUpTo(MaxTokens)}

UrlSpec == InitValues /\ [][CallLooksLikeUrl]_vars

---------------------------------------------------------------------------
(* Claims about the parsers *)

RobotsParsed == pc = "called" /\ "robots_txt" \in DOMAIN site

(* the values of the lines of the document that stand for the directive *)
ValuesOf(doc, directive) ==
    LET sel == SelectSeq(doc, LAMBDA l : l.is = directive)
    IN  [i \in 1 .. Len(sel) |-> sel[i].value]

(* C18: _parse_robots_content gives, in document order, the values of the
   sitemap, allow and disallow lines as sitemaps, allowed and disallowed,
   whatever the case of the directive name and the white space around
   name and value; crawl_delay is the number of the last crawl-delay line
   that has one, None without such a line; blank lines, comments, lines
   without ':' and unknown directives add nothing. *)
C18_RobotsContentParsed ==
    RobotsParsed =>
        LET doc    == site.robots_txt
            delays == ValuesOf(doc, "delay")
        IN  result[1] =
                [sitemaps    |-> ValuesOf(doc, "sitemap"),
                 allowed     |-> ValuesOf(doc, "allow"),
                 disallowed  |-> ValuesOf(doc, "disallow"),
                 crawl_delay |-> IF delays = <<>> THEN None
                                 ELSE Some(NumeralValue(delays[Len(delays)][1]))]

(* the example of the claim: a Sitemap line, Crawl-delay: 2 and
   Disallow: /admin *)
C18_Witness ==
    /\ RobotsParsed
    /\ \E i \in 1 .. Len(site.robots_txt) : site.robots_txt[i].is = "sitemap"
    /\ Len(result[1].sitemaps) = 1
    /\ result[1].crawl_delay = Some(2)
    /\ result[1].disallowed = <<(<<"/admin">>)>>

HasBadDelay(doc) == \E i \in 1 .. Len(doc) : doc[i].is = "bad_delay"

HasDelay(doc) == \E i \in 1 .. Len(doc) : doc[i].is = "delay"

(* C19: for a robots.txt with a crawl-delay line without a number and no
   crawl-delay line with one, the parse gives crawl_delay None and the
   sitemaps, allowed and disallowed of the text without those lines. *)
C19_BadDelayIgnored ==
    RobotsParsed /\ HasBadDelay(site.robots_txt) /\ ~HasDelay(site.robots_txt) =>
        LET rest == ParseRobotsContent(Content(
                        SelectSeq(site.robots_txt, LAMBDA l : l.is # "bad_delay")))
        IN  /\ result[1].crawl_delay = None
            /\ result[1].sitemaps = rest.sitemaps
            /\ result[1].allowed = rest.allowed
            /\ result[1].disallowed = rest.disallowed

(* a crawl-delay without a number between a sitemap line and a disallow
   line, both parsed *)
C19_Witness ==
    /\ RobotsParsed
    /\ Len(site.robots_txt) = 3
    /\ site.robots_txt[1].is = "sitemap"
    /\ site.robots_txt[2].is = "bad_delay"
    /\ site.robots_txt[3].is = "disallow"
    /\ result[1].sitemaps # <<>>
    /\ result[1].disallowed # <<>>
    /\ result[1].crawl_delay = None

SitemapParsed == pc = "called" /\ "sitemaps" \in DOMAIN site

(* the document of the one response of the session *)
GivenDoc == (CHOOSE resp \in site.sitemaps[sitemap_url[1]] : TRUE).doc

(* the loc values of the entries of the document with the tag: the texts
   of their loc elements, without the white space around them *)
LocValues(doc, tag) ==
    {e.loc[1].value :
        e \in {x \in doc.entries :
                  /\ x.tag = tag
                  /\ x.loc # None
                  /\ x.loc[1].pad \/ x.loc[1].value # ""}}

(* every entry is under the sitemap namespace, or none is *)
OneNamespace(doc) == \A e1, e2 \in doc.entries : e1.ns = e2.ns

(* C20: on a 200 response with a well-formed document _parse_sitemap
   gives loc values of url entries as page URLs and loc values of sitemap
   entries as child sitemaps, all of them when the document is under one
   namespace; without sitemap entries the child set is empty, and without
   url entries the set of page URLs is empty. *)
C20_SitemapParsed ==
    SitemapParsed =>
        LET doc == GivenDoc
            got == result[1]
        IN  /\ ~got.raised
            /\ got.urls \subseteq LocValues(doc, "url")
            /\ got.children \subseteq LocValues(doc, "sitemap")
            /\ OneNamespace(doc) =>
                   /\ got.urls = LocValues(doc, "url")
                   /\ got.children = LocValues(doc, "sitemap")

(* a urlset without namespace and without sitemap entries, with two url
   entries, one padded: both page URLs and no child *)
C20_Witness ==
    /\ SitemapParsed
    /\ \A e \in GivenDoc.entries : e.tag = "url" /\ ~e.ns
    /\ \E e \in GivenDoc.entries : e.loc # None /\ e.loc[1].pad
    /\ result[1].urls = {"/a", "/b"}
    /\ result[1].children = {}

(* C21: gzip round trip: for every document d, _parse_sitemap on the
   gzip-compressed bytes of d served at a URL that ends in .gz returns the
   page URLs and the child sitemaps that it returns on d served
   uncompressed at a URL that does not end in .gz. *)
C21_GzipRoundTrip ==
    SitemapParsed /\ EndsWithGz(sitemap_url[1]) =>
        \A plain \in SitemapUniverse \ GzSuffixed :
            LET direct == ParseSitemap(plain, Response("ok", "plain", GivenDoc))
            IN  /\ result[1].urls = direct.urls
                /\ result[1].children = direct.children
                /\ result[1].raised = direct.raised

(* a compressed document with a url entry and a sitemap entry was parsed
   at the .gz URL and gave a page URL and a child *)
C21_Witness ==
    /\ SitemapParsed
    /\ EndsWithGz(sitemap_url[1])
    /\ \E resp \in site.sitemaps[sitemap_url[1]] : resp.enc = "gzip"
    /\ result[1].urls # {}
    /\ result[1].children # {}

UrlChecked == pc = "called" /\ "value" \in DOMAIN site

(* the path tokens as the specification describes them: word characters,
   hyphens and slashes, optionally followed by a dot and a page extension *)
IsPathToken(value) ==
    \E n \in 1 .. Len(value) :
        /\ \A i \in 1 .. n : value[i] \in Words \cup {"-", "/"}
        /\ \/ n = Len(value)
           \/ /\ Len(value) = n + 2
              /\ value[n + 1] = "."
              /\ value[n + 2] \in PageExtensions

(* C22 as claimed: _looks_like_url gives False for the empty value and for
   a value that starts with '#', 'javascript:', 'mailto:', 'tel:' or
   'data:', True for any other value that starts with '/', 'http://',
   'https://' or './', and for the remaining values True exactly for the
   path tokens. *)
C22_LooksLikeUrl ==
    UrlChecked =>
        LET value == site.value
        IN  result[1] =
                IF value = <<>> \/ \E p \in SkippedPrefixes : StartsWith(value, p)
                    THEN FALSE
                ELSE IF \E p \in UrlPrefixes : StartsWith(value, p)
                    THEN TRUE
                ELSE IsPathToken(value)

LinksExtracted == pc = "called" /\ "page" \in DOMAIN site

(* C27 as claimed: when one of the seven strategies raises, each of the
   other six still runs: the URLs of every strategy that does not raise
   are in the set that _extract_all_links returns. *)
C27_StrategyIsolation ==
    LinksExtracted =>
        \A failed \in Strategies :
            site.page[failed].raises =>
                \A other \in Strategies \ {failed} :
                    ~site.page[other].raises =>
                        site.page[other].urls \subseteq result[1]

---------------------------------------------------------------------------
(* Claims about the fetch of robots.txt *)

RobotsError == Error("/robots.txt", "robots_parse_error")

(* C11 as claimed: a GET of robots.txt that ends in a network error or in
   a status other than 200 leaves one robots_parse_error for the robots
   URL in the error log. *)
C11_RobotsFailureRecorded ==
    \A i \in 1 .. Len(robots_log) :
        robots_log[i] \in {"raise", "non200"} => Count(errors, RobotsError) = 1

(* C16: the robots phase leaves crawl_delay at the crawl-delay of
   robots.txt when respect_robots holds and that delay is greater than the
   configured one, and at the configured delay otherwise; no step of a
   crawl lowers crawl_delay, no step outside the robots phase changes it,
   and no step changes another field of the configuration. *)
C16_DelayOnlyRaised ==
    [][/\ config'.crawl_delay >= config.crawl_delay
       /\ [config' EXCEPT !.crawl_delay = 0] = [config EXCEPT !.crawl_delay = 0]
       /\ pc # "robots" => config' = config
       /\ pc = "robots" =>
            config'.crawl_delay =
                IF /\ config.respect_robots
                   /\ robots_log'[Len(robots_log')] = "ok"
                   /\ robots_data'[1].crawl_delay # None
                   /\ robots_data'[1].crawl_delay[1] > config.crawl_delay
                THEN robots_data'[1].crawl_delay[1]
                ELSE config.crawl_delay]_vars

(* the robots phase is over and has raised the delay above every
   configured one *)
C16_Witness ==
    /\ pc = "discover"
    /\ robots_data # None
    /\ robots_data[1].crawl_delay = Some(config.crawl_delay)
    /\ config.crawl_delay > MaxDelay

---------------------------------------------------------------------------
(* The whole crawl *)

(* what _extract_all_links may give on the small site: nothing, one or two
   pages, the linking page itself or the start page, a page of another
   netloc *)
PageLinks ==
    {{}, {"/a"}, {"/c"}, {"/", "/b"}, {"/a", "/b"}, {"/b", "/c"},
     {"/a"} \cup OffOriginUrls, Urls}

(* a site whose robots.txt names an index and the sitemap the index names,
   whose sitemap may list a page, whose probes find a page, and whose
   pages link anywhere *)
SmallSite ==
    [AnySitemapSite EXCEPT
        !.robots = {RobotsResponse("ok", <<"/sm1.xml", "/sitemap.xml">>, None)},
        !.sitemaps = [s \in SitemapUniverse |->
                        IF s = "/sm1.xml"
                            THEN {Response("ok", "plain", Doc(TRUE, {}, {"/sitemap.xml"}))}
                            ELSE {Response("non200", "plain", Doc(FALSE, {}, {})),
                                  Response("ok", "plain", Doc(TRUE, {"/a"}, {}))}],
        !.probes = {{"/b"}},
        !.links = PageLinks]

(* the budgets from 0 up to their bounds, at least one worker *)
Configs ==
    {Config(mp, md, pw, DefaultDelay, TRUE, ag) :
        mp \in 0 .. MaxPagesBound, md \in 0 .. MaxDepthBound,
        pw \in 1 .. MaxWorkers, ag \in BOOLEAN}

Init ==
    /\ Constructed
    /\ config \in Configs
    /\ site = SmallSite

Spec == Init /\ [][Next]_vars

(* any integers for the budgets and the workers, on a site of two pages *)
AnyConfigs ==
    {Config(mp, md, pw, DefaultDelay, TRUE, ag) :
        mp \in -1 .. 1, md \in -1 .. 1, pw \in -1 .. 1, ag \in BOOLEAN}

TwoPageSite ==
    [SmallSite EXCEPT !.links = SUBSET {"/", "/a"}]

InitAnyConfig ==
    /\ Constructed
    /\ config \in AnyConfigs
    /\ site = TwoPageSite

(* the event loop runs the driver or a task whenever one can take a step *)
FairSpec == InitAnyConfig /\ [][Next]_vars /\ WF_vars(Next)

(* a site on which everything may fail: the GET of robots.txt, every
   sitemap fetch and parse, every probe and every render *)
FailingSite ==
    [SmallSite EXCEPT
        !.robots = {RobotsResponse("raise", <<>>, None),
                    RobotsResponse("non200", <<>>, None),
                    RobotsResponse("ok", <<"/sm1.xml", "/sitemap.xml">>, None)},
        !.sitemaps = [s \in SitemapUniverse |->
                        SmallSite.sitemaps[s]
                        \cup {Response("raise", "plain", Doc(FALSE, {}, {})),
                              Response("ok", "plain", Doc(FALSE, {}, {}))}],
        !.probes = {{}, {"/b"}},
        !.links = {{}, {"/a", "/c"}}]

(* budgets and workers of at least 1 *)
WorkingConfigs ==
    {Config(mp, md, pw, DefaultDelay, TRUE, ag) :
        mp \in 1 .. MaxPagesBound, md \in 0 .. MaxDepthBound,
        pw \in 1 .. MaxWorkers, ag \in BOOLEAN}

InitFailures ==
    /\ Constructed
    /\ config \in WorkingConfigs
    /\ site = FailingSite

(* the event loop runs the driver or a task whenever one can take a step *)
FairFailureSpec == InitFailures /\ [][Next]_vars /\ WF_vars(Next)

(* a site whose pages also link to its own host under another scheme and
   on another port, and to another host *)
MixedOriginSite ==
    [SmallSite EXCEPT
        !.links = {{}, {"/a"}, {"/a"} \cup OtherSchemeUrls,
                   {"/c"} \cup OtherPortUrls \cup OffOriginUrls}]

InitOrigins ==
    /\ Constructed
    /\ config \in Configs
    /\ site = MixedOriginSite

OriginSpec == InitOrigins /\ [][Next]_vars

(* a site whose robots.txt names no sitemap, one index or an index and a
   sitemap, and whose sitemaps are indexes that name each other, name
   sitemaps that robots.txt does not name, or fail *)
ReferenceSite ==
    [SmallSite EXCEPT
        !.robots = {RobotsResponse("non200", <<>>, None),
                    RobotsResponse("ok", <<>>, None),
                    RobotsResponse("ok", <<"/sm1.xml">>, None),
                    RobotsResponse("ok", <<"/sm1.xml", "/sitemap.xml">>, None)},
        !.sitemaps =
            [s \in SitemapUniverse |->
                IF s = "/sm1.xml"
                    THEN {Response("raise", "plain", Doc(FALSE, {}, {})),
                          Response("ok", "plain", Doc(TRUE, {}, {"/sitemap.xml"})),
                          Response("ok", "plain",
                                   Doc(TRUE, {}, {"/sitemap.xml", "/sm2.xml.gz"}))}
                ELSE IF s = "/sitemap.xml"
                    THEN {Response("non200", "plain", Doc(FALSE, {}, {})),
                          Response("ok", "plain", Doc(TRUE, {"/a"}, {})),
                          Response("ok", "plain", Doc(TRUE, {}, {"/sm1.xml"}))}
                ELSE {Response("ok", "plain", Doc(TRUE, {}, {"/sm1.xml"})),
                      Response("ok", "gzip", Doc(TRUE, {}, {"/sitemap.xml"}))}],
        !.links = {{}, {"/a"}}]

InitReferences ==
    /\ Constructed
    /\ config \in WorkingConfigs
    /\ site = ReferenceSite

ReferenceSpec == InitReferences /\ [][Next]_vars

(* crawl() called again and again on the same crawler *)
NextRecrawl == Next \/ CrawlAgain

InitRecrawl ==
    /\ Constructed
    /\ config \in Configs
    /\ site = TwoPageSite

RecrawlSpec == InitRecrawl /\ [][NextRecrawl]_vars

(* the sites one crawler is used on, one call after the other: robots.txt
   is missing, names sitemaps, or gives a crawl-delay *)
SessionSite ==
    [TwoPageSite EXCEPT
        !.robots = {RobotsResponse("non200", <<>>, None),
                    RobotsResponse("ok", <<"/sm1.xml", "/sitemap.xml">>, None),
                    RobotsResponse("ok", <<>>, Some(DefaultDelay + 1))},
        !.links = {{}, {"/a"}}]

(* crawlers constructed with the default delay *)
SessionConfigs ==
    {Config(mp, 0, 1, DefaultDelay, respect, aggressive) :
        mp \in 1 .. 2, respect \in BOOLEAN, aggressive \in BOOLEAN}

InitSessions ==
    /\ Constructed
    /\ config \in SessionConfigs
    /\ site = SessionSite

SessionSpec == InitSessions /\ [][NextRecrawl]_vars

---------------------------------------------------------------------------
(* Claims about the crawl loop *)

InCrawlLoop == pc \in {"loop", "gather", "sleep"}

Dispatched == Range(dispatch_log)

CrawlErrors == SelectSeq(errors, LAMBDA e : e.type = "crawl_error")

AllDone == \A i \in 1 .. Len(tasks) : tasks[i].state = "done"

(* C1: at every moment of a crawl, a batch in flight included, at most
   max_pages URLs are in visited_urls, and pages, in the crawler and in the
   returned result, has at most max_pages entries. *)
C1_PageBudget ==
    /\ Cardinality(visited_urls) <= config.max_pages
    /\ Len(pages) <= config.max_pages
    /\ result # None => Len(Contents(result[1]).pages) <= config.max_pages

(* the budget is exhausted by a batch in flight that it cut short, with
   URLs left pending and a render that failed *)
C1_Witness ==
    /\ pc = "gather"
    /\ Cardinality(visited_urls) = config.max_pages
    /\ Len(tasks) < config.parallel_workers
    /\ pages_to_crawl # <<>>
    /\ CrawlErrors # <<>>
    /\ \E i \in 1 .. Len(tasks) : tasks[i].state = "running"

(* C2: every URL handed to the renderer, every visited URL and every page
   has a recorded depth of at most max_depth; a URL recorded deeper is
   never rendered. *)
C2_DepthBudget ==
    /\ \A u \in Dispatched \cup visited_urls \cup Range(pages) :
         u \in DOMAIN depth_map /\ depth_map[u] <= config.max_depth
    /\ \A i \in 1 .. Len(tasks) : tasks[i].depth <= config.max_depth

(* a URL recorded deeper than max_depth has left the queue unrendered *)
C2_Witness ==
    /\ InCrawlLoop
    /\ \E u \in DOMAIN depth_map :
         /\ depth_map[u] > config.max_depth
         /\ u \notin Range(pages_to_crawl)
         /\ u \notin visited_urls

(* C3: a depth is recorded exactly when a URL enters the pending queue,
   which it does once: 0 for a seed, the depth of the linking page plus
   one for a link; a recorded depth never changes. *)
C3_FirstSeenDepth ==
    [][LET Enters(u)  == Count(pages_to_crawl', u) > Count(pages_to_crawl, u)
           Written(u) == /\ u \in DOMAIN depth_map'
                         /\ ~InCrawlLoop \/ u \notin DOMAIN depth_map
       IN  /\ InCrawlLoop =>
                \A u \in DOMAIN depth_map :
                    u \in DOMAIN depth_map' /\ depth_map'[u] = depth_map[u]
           /\ \A u \in Urls :
                /\ Enters(u) <=> Written(u)
                /\ Written(u) =>
                     /\ Count(pages_to_crawl', u) = 1
                     /\ IF InCrawlLoop
                          THEN \E i \in 1 .. Len(tasks) :
                                 /\ u \in tasks[i].result.new_urls
                                 /\ depth_map'[u] = tasks[i].depth + 1
                          ELSE depth_map'[u] = 0]_vars

(* a finished batch is about to be merged, and one of its pages links to
   a URL whose recorded depth is not that page's depth plus one *)
C3_Witness ==
    /\ pc = "gather"
    /\ AllDone
    /\ \E i \in 1 .. Len(tasks) : \E u \in tasks[i].result.new_urls :
         /\ u \in DOMAIN depth_map
         /\ u \notin visited_urls
         /\ depth_map[u] # tasks[i].depth + 1

(* C4: within one crawl a URL is handed to the renderer at most once,
   pages holds at most one entry per URL, and a URL whose render failed has
   one crawl_error and no page. *)
C4_RenderedAtMostOnce ==
    \A u \in Urls :
        /\ Count(dispatch_log, u) <= 1
        /\ Count(pages, u) <= 1
        /\ Count(CrawlErrors, Error(u, "crawl_error")) <= 1
        /\ Error(u, "crawl_error") \in Range(errors) => u \notin Range(pages)

(* a URL listed by a sitemap whose render failed is linked by a page
   rendered later *)
C4_Witness ==
    /\ pc = "gather"
    /\ AllDone
    /\ \E u \in Urls :
         /\ Error(u, "crawl_error") \in Range(errors)
         /\ \E k \in 1 .. Len(parse_log) : u \in parse_log[k].urls
         /\ \E i \in 1 .. Len(tasks) :
              u \in tasks[i].result.new_urls /\ u # tasks[i].url

(* C5 as claimed: the returned discovered_urls holds every URL that was
   ever in the pending queue, links of rendered pages included. *)
C5_DiscoveredHoldsEveryQueuedUrl ==
    result # None => DOMAIN depth_map \subseteq Contents(result[1]).discovered_urls

(* C6 as claimed: for any integer budgets and workers the driver loop
   exits, with the queue empty or the page budget reached. *)
C6_DriverTerminates ==
    /\ <>(pc \in {"returned", "raised"})
    /\ [](pc = "returned" =>
            \/ pages_to_crawl = <<>>
            \/ Cardinality(visited_urls) >= config.max_pages)

(* C12: whatever fails (the robots fetch, sitemap fetches and parses,
   probes, renders), crawl() never raises, goes through the robots phase,
   the sitemap phase and the crawl loop, returns a result, and has then
   rendered every queued URL that the depth and page budgets allow. *)
C12_NoFailureAbortsCrawl ==
    /\ <>(pc = "returned")
    /\ [](pc # "raised")
    /\ [](pc = "returned" =>
            /\ result # None
            /\ robots_log # <<>>
            /\ fetch_log # <<>>
            /\ StartUrl \in discovered_urls
            /\ Cardinality(visited_urls) < config.max_pages =>
                   \A u \in DOMAIN depth_map :
                       depth_map[u] <= config.max_depth => u \in visited_urls)

(* crawl() has returned after the robots GET raised, a sitemap fetch raised
   and a render failed, with a page rendered all the same *)
C12_Witness ==
    /\ pc = "returned"
    /\ RobotsError \in Range(errors)
    /\ \E s \in SitemapUniverse : Error(s, "sitemap_parse_error") \in Range(errors)
    /\ CrawlErrors # <<>>
    /\ pages # <<>>


IsSuffixOf(q, r) == \E k \in 0 .. Len(r) : q = SubSeq(r, k + 1, Len(r))

IsPrefixOf(q, r) == Len(q) <= Len(r) /\ q = SubSeq(r, 1, Len(q))

(* q holds elements of r, each at most once, in the order r has them *)
IsSubsequenceOf(q, r) ==
    \E f \in [1 .. Len(q) -> 1 .. Len(r)] :
        /\ \A i \in 1 .. Len(q) : q[i] = r[f[i]]
        /\ \A i, j \in 1 .. Len(q) : i < j => f[i] < f[j]

(* C13: the pending queue is first in, first out: a step of the crawl loop
   either takes URLs from its head, handing those it renders to the
   renderer in that order, or puts URLs at its tail; and every URL
   rendered in an earlier batch has a recorded depth of at most the depth
   of every URL of the batch in flight. *)
C13_BreadthFirst ==
    /\ [](pc = "gather" =>
            \A k \in 1 .. Len(dispatch_log) - Len(tasks) :
                \A i \in 1 .. Len(tasks) :
                    depth_map[dispatch_log[k]] <= tasks[i].depth)
    /\ [][InCrawlLoop /\ InCrawlLoop' =>
            \/ /\ IsSuffixOf(pages_to_crawl', pages_to_crawl)
               /\ IsPrefixOf(dispatch_log, dispatch_log')
               /\ IsSubsequenceOf(
                      SubSeq(dispatch_log', Len(dispatch_log) + 1, Len(dispatch_log')),
                      SubSeq(pages_to_crawl, 1, Len(pages_to_crawl) - Len(pages_to_crawl')))
            \/ /\ IsPrefixOf(pages_to_crawl, pages_to_crawl')
               /\ dispatch_log' = dispatch_log]_vars

(* a batch is in flight with a URL deeper than one rendered in an earlier
   batch, while a URL still deeper waits in the queue *)
C13_Witness ==
    /\ pc = "gather"
    /\ Len(dispatch_log) > Len(tasks)
    /\ \E i \in 1 .. Len(tasks) :
         /\ tasks[i].depth > depth_map[dispatch_log[1]]
         /\ \E a \in 1 .. Len(pages_to_crawl) :
              depth_map[pages_to_crawl[a]] > tasks[i].depth

(* the URLs of the batch in flight whose render gave a page *)
Rendered == {tasks[i].url : i \in {j \in 1 .. Len(tasks) : tasks[j].result.page_meta # None}}

(* C14 as claimed: pages is in completion order: the merge of a batch
   adds the pages of the batch in the order in which their renders
   completed. *)
C14_PagesInCompletionOrder ==
    [][pc = "gather" /\ pc' # "gather" =>
          pages' = pages \o SelectSeq(completion_log, LAMBDA u : u \in Rendered)]_vars


(* the tasks that hold a permit of the semaphore and have not returned *)
InFlight == {i \in 1 .. Len(tasks) : tasks[i].state = "running"}

(* C15: at every moment at most parallel_workers renders are in flight,
   and a batch never has more tasks than the least of parallel_workers,
   the length of the pending queue and max_pages - |visited_urls|. *)
C15_BoundedConcurrency ==
    /\ [](Cardinality(InFlight) <= config.parallel_workers)
    /\ [][pc = "loop" /\ pc' = "gather" =>
            /\ Len(tasks') <= config.parallel_workers
            /\ Len(tasks') <= Len(pages_to_crawl)
            /\ Len(tasks') <= config.max_pages - Cardinality(visited_urls)]_vars

(* as many renders in flight as there are workers, more than one, with
   URLs left pending *)
C15_Witness ==
    /\ pc = "gather"
    /\ config.parallel_workers > 1
    /\ Cardinality(InFlight) = config.parallel_workers
    /\ pages_to_crawl # <<>>


(* C17 as claimed: once crawl() has returned a CrawlResult, what its
   pages, discovered_urls, sitemap_urls and errors hold never changes,
   also when crawl() is called again on the crawler. *)
C17_ResultImmutable ==
    [][result # None => Contents(result[1])' = Contents(result[1])]_vars

(* scheme, host and port *)
Origin(u) == <<Scheme(u), Netloc(u)>>

(* C23 as claimed: every link that a rendered page hands back to the
   scheduler, and every URL enqueued with depth at least 1, has the origin
   (scheme, host and port) of the start URL. *)
C23_SameOriginFilter ==
    /\ \A i \in 1 .. Len(tasks) : \A u \in tasks[i].result.new_urls :
         Origin(u) = Origin(StartUrl)
    /\ \A u \in DOMAIN depth_map :
         depth_map[u] >= 1 => Origin(u) = Origin(StartUrl)

(* the sitemaps that robots.txt gave in this crawl *)
NamedByRobots == IF robots_data = None THEN {} ELSE Range(robots_data[1].sitemaps)

(* C24: once the seeds are set, sitemap_urls, and with it the sitemap_urls
   of the result, holds every sitemap URL fetched, every sitemap URL that
   robots.txt named and every child of every parsed index, also a child
   that was processed before the index named it; when robots.txt named
   none, the default sitemap is in it and is the first one fetched. *)
C24_SitemapUrlsComplete ==
    LET Complete(S) ==
            /\ Fetched \subseteq S
            /\ NamedByRobots \subseteq S
            /\ \A i \in 1 .. Len(parse_log) : parse_log[i].children \subseteq S
            /\ NamedByRobots = {} =>
                   /\ DefaultSitemap \in S
                   /\ fetch_log # <<>> => fetch_log[1] = DefaultSitemap
    IN  /\ pc \notin {"idle", "robots", "discover", "raised"} => Complete(sitemap_urls)
        /\ result # None => Complete(Contents(result[1]).sitemap_urls)

(* crawl() has returned after an index named a sitemap that robots.txt
   had not named, and another index named a sitemap fetched before *)
C24_Witness ==
    /\ pc = "returned"
    /\ result # None
    /\ \E i \in 1 .. Len(parse_log) :
         \E c \in parse_log[i].children : c \notin NamedByRobots
    /\ \E i \in 1 .. Len(parse_log) : \E k \in 1 .. i - 1 :
         fetch_log[k] \in parse_log[i].children

(* C25: a batch other than the first of a crawl is dispatched after
   exactly one sleep since the batch before it; after the merge of a
   batch the driver sleeps exactly when the pending queue is not empty;
   and while a batch is in flight no sleep happens. *)
C25_PolitenessPause ==
    /\ [](pc = "gather" => sleeps = Some(0))
    /\ [][/\ pc = "loop" /\ pc' = "gather" /\ sleeps # None => sleeps = Some(1)
          /\ pc = "gather" /\ pc' # "gather" =>
                (pc' = "sleep" <=> pages_to_crawl' # <<>>)
          /\ pc = "gather" /\ pc' = "gather" => sleeps' = sleeps
          /\ pc = "sleep" => sleeps' = Some(1) /\ pages_to_crawl' = pages_to_crawl]_vars

(* the driver has slept once after a batch of two renders, one of them
   failed, and is about to dispatch the next batch *)
C25_Witness ==
    /\ pc = "loop"
    /\ sleeps = Some(1)
    /\ LoopCondition
    /\ Len(dispatch_log) = 2
    /\ Len(pages) = 1

(* a step of a page task: the driver stays in asyncio.gather *)
TaskStep == pc = "gather" /\ pc' = "gather"

(* C26 as claimed: in the crawl loop visited_urls, the depth map and the
   pending queue change only in steps of the driver, the pops of the batch
   and the merge of its results; no step of a page task changes any of
   them. *)
C26_SingleMutationPoint ==
    [][TaskStep =>
          /\ visited_urls' = visited_urls
          /\ depth_map' = depth_map
          /\ pages_to_crawl' = pages_to_crawl]_vars

(* no batch is in flight: its results are merged *)
BatchMerged == pc \in {"loop", "sleep", "returned"}

(* C28 as claimed: once a batch is merged every URL in visited_urls has a
   PageMetadata in pages, and a URL whose render failed is not in
   visited_urls. *)
C28_VisitedMeansRendered ==
    BatchMerged =>
        /\ visited_urls \subseteq Range(pages)
        /\ \A i \in 1 .. Len(CrawlErrors) : CrawlErrors[i].url \notin visited_urls

ErrorUrls == {errors[i].url : i \in 1 .. Len(errors)}

(* C29: every crawl_error names a URL that was handed to the renderer; a
   URL that was never handed to it has no entry in errors at all, be it
   pending when the loop exits with the page budget exhausted, or recorded
   deeper than max_depth and dropped. *)
C29_NoErrorWithoutRender ==
    /\ \A i \in 1 .. Len(CrawlErrors) :
         /\ CrawlErrors[i].url \in Dispatched
         /\ CrawlErrors[i].url \in visited_urls
    /\ \A u \in DOMAIN depth_map :
         /\ u \notin Dispatched => u \notin ErrorUrls
         /\ depth_map[u] > config.max_depth => u \notin ErrorUrls
    /\ pc = "returned" => Range(pages_to_crawl) \cap ErrorUrls = {}

(* crawl() has returned with the page budget exhausted, a failed render
   among the renders and URLs left pending *)
C29_Witness ==
    /\ pc = "returned"
    /\ Cardinality(visited_urls) = config.max_pages
    /\ pages_to_crawl # <<>>
    /\ CrawlErrors # <<>>
    /\ pages # <<>>

(* C30: in every state of the driver loop, a batch in flight included,
   and at the return, the pending queue holds no URL twice and no URL of
   visited_urls, and every URL of the pending queue and of visited_urls
   has a depth in the depth map. *)
C30_FrontierWellFormed ==
    InCrawlLoop \/ pc = "returned" =>
        /\ \A i, j \in 1 .. Len(pages_to_crawl) :
             pages_to_crawl[i] = pages_to_crawl[j] => i = j
        /\ Range(pages_to_crawl) \cap visited_urls = {}
        /\ Range(pages_to_crawl) \cup visited_urls \subseteq DOMAIN depth_map

(* after an earlier merge has queued links, a finished batch is to be
   merged whose pages link to a visited URL and to a pending one *)
C30_Witness ==
    /\ pc = "gather"
    /\ AllDone
    /\ Len(dispatch_log) > Len(tasks)
    /\ \E a \in 1 .. Len(pages_to_crawl) : depth_map[pages_to_crawl[a]] >= 1
    /\ \E i \in 1 .. Len(tasks) :
         /\ tasks[i].result.new_urls \cap visited_urls # {}
         /\ tasks[i].result.new_urls \cap Range(pages_to_crawl) # {}

(* C31: when the results of a batch are merged, every link of a rendered
   page of depth d has a recorded depth of at most d + 1 after the merge,
   whether the merge recorded it or it was recorded before; and the
   recorded depths of the pending queue never decrease from head to
   tail. *)
C31_FirstSeenDepthMinimal ==
    /\ [](InCrawlLoop =>
            \A a, b \in 1 .. Len(pages_to_crawl) :
                a < b => depth_map[pages_to_crawl[a]] <= depth_map[pages_to_crawl[b]])
    /\ [][pc = "gather" /\ pc' # "gather" =>
            \A i \in 1 .. Len(tasks) :
                tasks[i].result.page_meta # None =>
                    \A u \in tasks[i].result.new_urls :
                        /\ u \in DOMAIN depth_map'
                        /\ depth_map'[u] <= tasks[i].depth + 1]_vars

(* after the merge of a page of depth 1 the queue holds a URL of depth 1
   ahead of a link of that page, of depth 2 *)
C31_Witness ==
    /\ pc = "sleep"
    /\ \E k \in 1 .. Len(pages) : depth_map[pages[k]] = 1
    /\ Len(pages_to_crawl) >= 2
    /\ depth_map[pages_to_crawl[1]] = 1
    /\ depth_map[pages_to_crawl[Len(pages_to_crawl)]] = 2

(* C32: whenever no batch is in flight, every URL of visited_urls has
   exactly one outcome, one PageMetadata in pages or one crawl_error in
   errors and never both, and no other URL has one: |pages| + |crawl_error
   entries| = |visited_urls|. *)
C32_OutcomeAccounting ==
    BatchMerged =>
        /\ \A u \in visited_urls :
             Count(pages, u) + Count(CrawlErrors, Error(u, "crawl_error")) = 1
        /\ Len(pages) + Len(CrawlErrors) = Cardinality(visited_urls)

(* two batches are merged: pages were rendered, a render failed, and the
   error log also holds the failures of robots.txt and of a sitemap *)
C32_Witness ==
    /\ pc = "loop"
    /\ Len(pages) >= 2
    /\ CrawlErrors # <<>>
    /\ Len(errors) >= Len(CrawlErrors) + 2
    /\ pages_to_crawl # <<>>

(* what a crawler constructed with the default delay holds after the
   robots phase of a call, given how the GET of robots.txt ended in that
   call and the crawl-delay it gave: the dict parsed in this call or
   None, and the delay slept between batches *)
FreshRobotsData == IF robots_log[1] = "ok" THEN robots_data ELSE None

FreshDelay ==
    IF /\ robots_log[1] = "ok"
       /\ config.respect_robots
       /\ robots_data[1].crawl_delay # None
       /\ robots_data[1].crawl_delay[1] > DefaultDelay
    THEN robots_data[1].crawl_delay[1]
    ELSE DefaultDelay

(* C33 as claimed: what crawl() returns is what a new crawler returns on
   the same responses, robots_data and the delay slept between batches
   included, also after earlier calls of crawl() on the crawler. *)
C33_SessionIndependence ==
    pc = "returned" =>
        /\ result[1].robots_data = FreshRobotsData
        /\ config.crawl_delay = FreshDelay


===========================================================================
